---- MODULE Spec2Model ----
(***************************************************************************)
(* Model of gan_utils.py: the flower_dataset class (eager and lazy         *)
(* loading of images and multi-resolution masks) and the helpers           *)
(* sample_mask, mask_pair_to_label, get_label and noise_input.             *)
(*                                                                         *)
(* Arrays.  Every file holds a uniformly coloured raster, so a decoded     *)
(* array is represented by its dims, its dtype, the library that owns it   *)
(* and `fill`, the value of each of its elements.  A float value v is      *)
(* held as the integer v * U8Max (the unit skimage uses when it converts   *)
(* uint8 to float), a uint8 value as itself.                               *)
(*                                                                         *)
(* Files.  The image path at position i of image_paths names file i, the   *)
(* mask path at position i of mask_paths names file -i; 0 is no file.      *)
(* A path is written as the kind of file it names.                         *)
(***************************************************************************)
EXTENDS Integers, Sequences, FiniteSets, TLC

VARIABLES args, ds, pc, ret, reads, out, num

vars == <<args, ds, pc, ret, reads, out, num>>

----------------------------------------------------------------------------
\* Bounds of the explored inputs.

MaxImages == 2
MaxSizes == 2
MaxBatch == 2
ImgSide == 2

SizeVals == {1, 2}
ImageKinds == {"rgb", "gray", "rgba", "bad"}
MaskKinds == {"gray", "rgb", "bad"}

\* Largest uint8 value: skimage scales uint8 rasters by 1/U8Max when it
\* converts them to float (transform.resize, as_gray).
U8Max == 255

----------------------------------------------------------------------------
\* Helpers on sequences and optional values.

SeqsUpTo(S, n) == UNION {[1..k -> S] : k \in 0..n}

None == [none |-> TRUE, v |-> <<>>]
Some(x) == [none |-> FALSE, v |-> x]

RECURSIVE Product(_)
Product(s) == IF s = <<>> THEN 1 ELSE Head(s) * Product(Tail(s))

\* The elements of an array, row-major.
Elements(a) == [p \in 1..Product(a.dims) |-> a.fill]

NoArray == [file |-> 0, dims |-> <<>>, dtype |-> "", fill |-> 0, lib |-> ""]

----------------------------------------------------------------------------
\* skimage.io.imread

\* The pixel level stored in file f (distinct for the files of one dataset).
PixelLevel(f) == ((IF f < 0 THEN 0 - f ELSE f) * 85) % (U8Max + 1)

Channels(kind) == IF kind = "rgb" THEN <<3>> ELSE IF kind = "rgba" THEN <<4>> ELSE <<>>

\* io.imread(path, as_gray): a colour raster is converted to a 2-D float64
\* luminance image when as_gray is set; a 2-D raster is returned as it is.
imread(f, kind, as_gray) ==
  IF as_gray /\ Channels(kind) # <<>>
  THEN [file |-> f, dims |-> <<ImgSide, ImgSide>>, dtype |-> "float64",
        fill |-> PixelLevel(f), lib |-> "numpy"]
  ELSE [file |-> f, dims |-> <<ImgSide, ImgSide>> \o Channels(kind), dtype |-> "uint8",
        fill |-> PixelLevel(f), lib |-> "numpy"]

\* The caller's transform / mask_transform (None when has = FALSE).  The
\* representative transform is torchvision's ToTensor: channel axis first,
\* float32 in [0,1], a torch tensor.
apply_transform(has, a) ==
  IF ~has THEN a
  ELSE [a EXCEPT !.dims = IF Len(a.dims) < 3 THEN <<1>> \o a.dims
                          ELSE <<a.dims[Len(a.dims)]>> \o SubSeq(a.dims, 1, Len(a.dims) - 1),
                 !.dtype = "float32",
                 !.lib = "torch"]

----------------------------------------------------------------------------
\* flower_dataset

\* The object before / without construction.
NoObject ==
  [len |-> 0, transform |-> FALSE, mask_transform |-> FALSE, in_memory |-> FALSE,
   mask_sizes |-> None, image_paths |-> <<>>, mask_paths |-> <<>>,
   image |-> <<>>, mask |-> <<>>]

\* Variant of empty_mask: masks of zeros (torch.zeros for -torch.ones).
empty_mask_zeros(size) ==
  [file |-> 0, dims |-> <<1, size, size>>, dtype |-> "float32", fill |-> 0, lib |-> "torch"]

\* get_empty_masks: one (1,size,size) float32 tensor of -1 per size.
empty_mask(size) ==
  [file |-> 0, dims |-> <<1, size, size>>, dtype |-> "float32",
   fill |-> 0 - U8Max, lib |-> "torch"]

get_empty_masks(self) ==
  [k \in 1..Len(self.mask_sizes.v) |-> empty_mask(self.mask_sizes.v[k])]

\* get_mask: resize to (size,size) keeping trailing axes, float32; then the
\* mask transform on the array with a new last axis.  size is an entry of
\* mask_sizes at both call sites (lines 45 and 68), never None.
get_mask(self, mask_, size) ==
  LET mask == [mask_ EXCEPT !.dims = <<size, size>> \o SubSeq(mask_.dims, 3, Len(mask_.dims)),
                            !.dtype = "float32"]
  IN IF self.mask_transform
     THEN apply_transform(TRUE, [mask EXCEPT !.dims = mask.dims \o <<1>>])
     ELSE mask

get_masks(self, mask_) ==
  [k \in 1..Len(self.mask_sizes.v) |-> get_mask(self, mask_, self.mask_sizes.v[k])]

\* Variant of skip_image: keeps only arrays whose last axis has 3 entries.
skip_image_by_channels(image) ==
  Len(image.dims) # 3 \/ image.dims[Len(image.dims)] # 3

\* Variant of skip_image: nothing is skipped.
skip_image_never(image) == FALSE

\* Line 31: the eager loop skips an image unless its array has three axes.
skip_image(image) == Len(image.dims) # 3

\* Variant of drop_len: the length is left as it was.
drop_len_kept(n) == n

\* Line 32: the length after an image is skipped.
drop_len(n) == n - 1

\* Variant of mask_index: the position among the kept images.
mask_index_by_kept(i, kept) == kept + 1

\* Line 42: the position in mask_paths read for the image at position i,
\* when `kept` images are already stored.
mask_index(i, kept) == i

\* Lines 29-46: the eager loop from position i on.  st.err # "" once an
\* exception has been raised.
RECURSIVE init_loop(_, _, _)
init_loop(a, i, st) ==
  IF st.err # "" \/ i > Len(a.image_paths) THEN st
  ELSE
    LET path == a.image_paths[i]
        st1 == [st EXCEPT !.reads = @ \cup {i}]
    IN
    IF path = "bad" THEN [st1 EXCEPT !.err = "IOError"]
    ELSE
      LET image == imread(i, path, FALSE) IN
      IF skip_image(image)
      THEN init_loop(a, i + 1, [st1 EXCEPT !.self.len = drop_len(@)])
      ELSE
        LET st2 == [st1 EXCEPT !.self.image = Append(@, apply_transform(a.transform, image))]
            m == mask_index(i, Len(st.self.image))
        IN
        IF a.mask_paths.none
        THEN IF a.mask_sizes.none
             THEN [st2 EXCEPT !.err = "TypeError"]
             ELSE init_loop(a, i + 1,
                            [st2 EXCEPT !.self.mask = Append(@, get_empty_masks(st.self))])
        ELSE
          LET st3 == [st2 EXCEPT !.reads = @ \cup {0 - m}] IN
          IF a.mask_paths.v[m] = "bad" THEN [st3 EXCEPT !.err = "IOError"]
          ELSE IF a.mask_sizes.none THEN [st3 EXCEPT !.err = "TypeError"]
          ELSE init_loop(a, i + 1,
                 [st3 EXCEPT !.self.mask =
                    Append(@, get_masks(st.self, imread(0 - m, a.mask_paths.v[m], TRUE)))])

\* __init__: the object built from arguments a, the files read, the error.
init(a) ==
  LET self0 == [NoObject EXCEPT !.len = Len(a.image_paths),
                                !.transform = a.transform,
                                !.mask_transform = a.mask_transform,
                                !.in_memory = a.in_memory,
                                !.mask_sizes = a.mask_sizes]
  IN
  IF ~a.in_memory
  THEN [self |-> [self0 EXCEPT !.image_paths = a.image_paths,
                               !.mask_paths = IF a.mask_paths.none
                                              THEN [i \in 1..self0.len |-> "None"]
                                              ELSE a.mask_paths.v],
        reads |-> {}, err |-> ""]
  ELSE init_loop(a, 1, [self |-> self0, reads |-> {}, err |-> ""])

\* __len__
len(self) == self.len

Failure(e, r) == [ok |-> FALSE, err |-> e, image |-> NoArray, masks |-> <<>>, reads |-> r]

\* __getitem__(idx), idx counted from 0.
getitem(self, idx) ==
  IF self.in_memory
  THEN IF idx + 1 > Len(self.image) \/ idx + 1 > Len(self.mask)
       THEN Failure("IndexError", {})
       ELSE [ok |-> TRUE, err |-> "", image |-> self.image[idx + 1],
             masks |-> self.mask[idx + 1], reads |-> {}]
  ELSE
    IF idx + 1 > Len(self.image_paths) THEN Failure("IndexError", {})
    ELSE IF self.image_paths[idx + 1] = "bad" THEN Failure("IOError", {idx + 1})
    ELSE
      LET image == apply_transform(self.transform,
                                   imread(idx + 1, self.image_paths[idx + 1], FALSE))
      IN
      IF idx + 1 > Len(self.mask_paths) THEN Failure("IndexError", {idx + 1})
      ELSE
        LET mask_path == self.mask_paths[idx + 1] IN
        IF mask_path = "None"
        THEN IF self.mask_sizes.none THEN Failure("TypeError", {idx + 1})
             ELSE [ok |-> TRUE, err |-> "", image |-> image,
                   masks |-> get_empty_masks(self), reads |-> {idx + 1}]
        ELSE IF mask_path = "bad" THEN Failure("IOError", {idx + 1, 0 - (idx + 1)})
        ELSE IF self.mask_sizes.none THEN Failure("TypeError", {idx + 1, 0 - (idx + 1)})
        ELSE [ok |-> TRUE, err |-> "", image |-> image,
              masks |-> get_masks(self, imread(0 - (idx + 1), mask_path, FALSE)),
              reads |-> {idx + 1, 0 - (idx + 1)}]

----------------------------------------------------------------------------
\* The dataset state machine: construct once, then look samples up.

NoRet == [idx |-> 0 - 1, ok |-> FALSE, err |-> "", image |-> NoArray, masks |-> <<>>]
NoOut == [called |-> FALSE, ok |-> FALSE, err |-> "", batch_size |-> 0, sizes |-> <<>>,
          seed |-> 0, draws |-> <<>>, masks |-> <<>>]
NoNum == [op |-> "", a |-> <<>>, r |-> <<>>]

\* Every argument tuple whose path lists have at most MaxImages entries.
ArgSets(ImgK, MaskK, SizeLists, Ts, MTs) ==
  {[image_paths |-> ip, mask_paths |-> mp, mask_sizes |-> ms, transform |-> t,
    mask_transform |-> mt, in_memory |-> im] :
     ip \in SeqsUpTo(ImgK, MaxImages),
     mp \in {None} \cup {Some(s) : s \in SeqsUpTo(MaskK, MaxImages)},
     ms \in SizeLists,
     t \in Ts, mt \in MTs, im \in BOOLEAN}

\* The constructor's contract: mask_paths is None or as long as
\* image_paths, and comes with a list of mask sizes.
WellFormed(a) ==
  \/ a.mask_paths.none
  \/ Len(a.mask_paths.v) = Len(a.image_paths) /\ ~a.mask_sizes.none

\* mask_sizes as the callers of Spec pass it: the default None, or a list.
SizeLists == {None, Some(<<>>), Some(<<1>>), Some(<<1, 2>>)}

InitRest ==
  /\ ds = NoObject
  /\ pc = "new"
  /\ ret = NoRet
  /\ reads = {}
  /\ out = NoOut
  /\ num = NoNum

Init ==
  /\ args \in {a \in ArgSets(ImageKinds, MaskKinds, SizeLists, BOOLEAN, BOOLEAN) :
                 WellFormed(a)}
  /\ InitRest

Construct ==
  /\ pc = "new"
  /\ LET r == init(args) IN
       /\ pc' = IF r.err = "" THEN "built" ELSE "failed"
       /\ ds' = IF r.err = "" THEN r.self ELSE NoObject
       /\ reads' = r.reads
       /\ ret' = [NoRet EXCEPT !.err = r.err]
  /\ UNCHANGED <<args, out, num>>

\* ret and out hold the result of the call that has just returned.
GetItem ==
  /\ pc = "built"
  /\ \E idx \in 0..MaxImages :
       LET r == getitem(ds, idx) IN
         /\ ret' = [idx |-> idx, ok |-> r.ok, err |-> r.err, image |-> r.image,
                    masks |-> r.masks]
         /\ reads' = r.reads
  /\ pc' = "returned"
  /\ UNCHANGED <<args, ds, out, num>>

\* The caller takes the result and goes on with the dataset.
Resume ==
  /\ pc = "returned"
  /\ pc' = "built"
  /\ ret' = NoRet
  /\ out' = NoOut
  /\ reads' = {}
  /\ UNCHANGED <<args, ds, num>>

Next == Construct \/ GetItem \/ Resume

Spec == Init /\ [][Next]_vars

----------------------------------------------------------------------------
\* sample_mask

\* noise_level of sample_mask, in tenths (line 90: noise_level=0.2).
SampleNoiseLevel == 2

Seeds == {0, 1}

\* torch.randn is a pseudo-random stream: the standard-normal draw for
\* element p of batch entry i of resolution k under a generator seed.
Randn(seed, k, i, p) == ((seed + k + 2 * i + 3 * p) % 3) - 1

\* One element of the noise tensor, torch.randn(...) * noise_level.
NoiseAt(seed, k, i, p) == (Randn(seed, k, i, p) * SampleNoiseLevel * U8Max) \div 10

\* numpy/torch broadcasting of an array of dims d into a slot of dims t.
Broadcastable(d, t) ==
  /\ Len(d) <= Len(t)
  /\ \A j \in 1..Len(d) : d[Len(d) - j + 1] \in {1, t[Len(t) - j + 1]}

\* Variant of InPlaceAdd: the sum is written into the real mask.
InPlaceAddIntoSrc(dst, src) ==
  [dst |-> dst, src |-> [src EXCEPT !.fill = @ + dst[1]]]

\* dst += src, element-wise on the slice dst; src is only read.
InPlaceAdd(dst, src) ==
  [dst |-> [p \in DOMAIN dst |-> dst[p] + src.fill], src |-> src]

\* Lines 92-95, flattened: step j covers batch entry i = j \div K + 1 and
\* resolution k = j % K + 1.  draws[i] is the value np.random.randint
\* returned for entry i.
RECURSIVE sample_loop(_, _, _, _, _)
sample_loop(batch_size, sizes, draws, j, st) ==
  LET K == Len(sizes) IN
  IF st.err # "" \/ j >= batch_size * K THEN st
  ELSE
    LET i == (j \div K) + 1
        k == (j % K) + 1
        n == draws[i]
        item == getitem(st.realdata, n)
    IN
    IF ~item.ok THEN [st EXCEPT !.err = item.err]
    ELSE IF k > Len(item.masks) THEN [st EXCEPT !.err = "IndexError"]
    ELSE
      LET src == item.masks[k] IN
      IF src.lib # "torch" THEN [st EXCEPT !.err = "AttributeError"]
      ELSE IF ~Broadcastable(src.dims, <<1, sizes[k], sizes[k]>>)
      THEN [st EXCEPT !.err = "RuntimeError"]
      ELSE
        LET r == InPlaceAdd(st.masks[k][i], src) IN
        sample_loop(batch_size, sizes, draws, j + 1,
          [st EXCEPT !.masks[k][i] = r.dst,
                     !.realdata = IF st.realdata.in_memory
                                  THEN [st.realdata EXCEPT !.mask[n + 1][k] = r.src]
                                  ELSE st.realdata])

\* sample_mask(batch_size, sizes, realdata): the returned list (masks[k][i]
\* is batch entry i of resolution k, flattened), the dataset after the call.
sample_mask(batch_size, sizes, realdata, seed, draws) ==
  LET noise == [k \in 1..Len(sizes) |->
                  [i \in 1..batch_size |->
                     [p \in 1..(sizes[k] * sizes[k]) |-> NoiseAt(seed, k, i, p)]]]
      st0 == [masks |-> noise, realdata |-> realdata, err |-> ""]
  IN IF batch_size > 0 /\ len(realdata) = 0
     THEN [st0 EXCEPT !.err = "ValueError"]
     ELSE sample_loop(batch_size, sizes, draws, 0, st0)

SampleMask ==
  /\ pc = "built"
  /\ \E batch_size \in 0..MaxBatch, seed \in Seeds,
        sizes \in IF ds.mask_sizes.none THEN {<<>>} ELSE {ds.mask_sizes.v, <<2>>} :
       \E draws \in [1..batch_size -> 0..(IF len(ds) = 0 THEN 0 ELSE len(ds) - 1)] :
         LET r == sample_mask(batch_size, sizes, ds, seed, draws) IN
           /\ out' = [called |-> TRUE, ok |-> r.err = "", err |-> r.err,
                      batch_size |-> batch_size, sizes |-> sizes, seed |-> seed,
                      draws |-> draws,
                      masks |-> IF r.err = "" THEN r.masks ELSE <<>>]
           /\ ds' = r.realdata
  /\ pc' = "returned"
  /\ UNCHANGED <<args, ret, reads, num>>

\* Datasets handed to sample_mask: kept and dropped images, no masks or
\* readable single-channel masks, with and without a mask transform.
SampleSizeLists == {Some(<<1>>), Some(<<1, 2>>), Some(<<2, 2>>)}

InitSample ==
  /\ args \in {a \in ArgSets({"rgb", "gray"}, {"gray"}, SampleSizeLists, {FALSE}, BOOLEAN) :
                 WellFormed(a)}
  /\ InitRest

NextSample == Construct \/ GetItem \/ SampleMask \/ Resume

SpecSample == InitSample /\ [][NextSample]_vars

\* Datasets without mask paths, every list of mask sizes.
InitEmpty ==
  /\ args \in {a \in ArgSets(ImageKinds, {}, {Some(s) : s \in SeqsUpTo(SizeVals, MaxSizes)},
                             BOOLEAN, BOOLEAN) : a.mask_paths.none}
  /\ InitRest

NextEmpty == Construct \/ GetItem \/ Resume

SpecEmpty == InitEmpty /\ [][NextEmpty]_vars

----------------------------------------------------------------------------
\* The numeric helpers.  A batch tensor is held as its view(b_size, -1): a
\* sequence of b_size rows of elements.

MaxPix == 2
MaxLabel == 2
MaxData == 2

BatchSizes == {1, 2}

Abs(x) == IF x < 0 THEN 0 - x ELSE x

RECURSIVE Sum(_)
Sum(s) == IF s = <<>> THEN 0 ELSE Head(s) + Sum(Tail(s))

\* Variant of compared_pair: the first (coarsest) pair.
compared_pair_first(mask, real_mask) == <<mask[1], real_mask[1]>>

\* The pair of tensors the label is computed from (lines 99-100).
compared_pair(mask, real_mask) == <<mask[Len(mask)], real_mask[Len(real_mask)]>>

\* mask_pair_to_label: per batch row, 1 - mean(|mask1 - mask2| / 2), held
\* as the exact fraction num/den with den = 2 * (elements per row).
mask_pair_to_label(mask, real_mask) ==
  LET mask1 == compared_pair(mask, real_mask)[1]
      mask2 == compared_pair(mask, real_mask)[2]
      b_size == Len(mask1)
  IN [b \in 1..b_size |->
        LET n == Len(mask1[b]) IN
        [num |-> 2 * n - Sum([p \in 1..n |-> Abs(mask1[b][p] - mask2[b][p])]),
         den |-> 2 * n]]

\* Labels are held in hundredths; torch.rand draws and soft / noise_level
\* in tenths.

\* Line 110: torch.full((size,), real).
full(size, real) == [i \in 1..size |-> real * 100]

\* Variant of smoothing: the draw is not scaled by soft.
smoothing_unscaled(rand, soft) == rand * 10

\* Lines 112, 114: torch.rand(size) * soft, in hundredths.
smoothing(rand, soft) == rand * soft

\* get_label; rands[i] is the torch.rand draw for entry i, perm the
\* torch.randperm permutation (read only when noise is set).
get_label(size, real, soft, noise, noise_level, rands, perm) ==
  LET label0 == full(size, real)
      label1 == IF real = 1
                THEN [i \in 1..size |-> label0[i] - smoothing(rands[i], soft)]
                ELSE [i \in 1..size |-> label0[i] + smoothing(rands[i], soft)]
      idx == {perm[j] : j \in 1..((size * noise_level) \div 10)}
  IN IF noise
     THEN [i \in 1..size |-> IF i \in idx THEN 100 - label1[i] ELSE label1[i]]
     ELSE label1

\* Variant of clamp: only the upper bound is applied.
clamp_upper(x) == IF x > 100 THEN 100 ELSE x

\* torch.clamp(x, -1, 1) on a value in hundredths.
clamp(x) == IF x < 0 - 100 THEN 0 - 100 ELSE IF x > 100 THEN 100 ELSE x

\* noise_input; data is [shape, d] with d in hundredths, randn[i] the
\* standard-normal draw for element i, noise_level in tenths.
noise_input(data, noise_level, clip, randn) ==
  IF noise_level = 0 THEN data
  ELSE
    LET noise_data == [shape |-> data.shape,
                       d |-> [i \in 1..Product(data.shape) |->
                                randn[i] * noise_level * 10 + data.d[i]]]
    IN IF clip THEN [noise_data EXCEPT !.d = [i \in DOMAIN @ |-> clamp(@[i])]]
       ELSE noise_data

MaskVals == {0 - 1, 0, 3}
RealMaskVals == {0 - 1, 1}
RandVals == {0, 5, 9}
RandnVals == {0 - 2, 0, 2}
DataVals == {0 - 150, 0 - 100, 0, 100, 150}
Levels == {0, 1, 5}

Perms(n) == {f \in [1..n -> 1..n] : \A i, j \in 1..n : f[i] = f[j] => i = j}

CallMaskPairToLabel ==
  /\ num.op = ""
  /\ \E b \in BatchSizes, n \in 1..MaxPix, coarse \in BOOLEAN :
       \E m1 \in [1..b -> [1..n -> MaskVals]], m2 \in [1..b -> [1..n -> RealMaskVals]] :
         LET mask == IF coarse THEN <<[i \in 1..b |-> <<3>>], m1>> ELSE <<m1>>
             real_mask == IF coarse THEN <<[i \in 1..b |-> <<0 - 1>>], m2>> ELSE <<m2>>
         IN num' = [op |-> "mask_pair_to_label",
                    a |-> [mask |-> mask, real_mask |-> real_mask],
                    r |-> mask_pair_to_label(mask, real_mask)]
  /\ UNCHANGED <<args, ds, pc, ret, reads, out>>

CallGetLabel ==
  /\ num.op = ""
  /\ \E size \in 0..MaxLabel, real \in {0, 1}, soft \in {0, 2}, noise \in BOOLEAN :
       \E rands \in [1..size -> RandVals],
          noise_level \in IF noise THEN {1, 5} ELSE {1},
          perm \in IF noise THEN Perms(size) ELSE {<<>>} :
         num' = [op |-> "get_label",
                 a |-> [size |-> size, real |-> real, soft |-> soft, noise |-> noise,
                        noise_level |-> noise_level, rands |-> rands, perm |-> perm],
                 r |-> get_label(size, real, soft, noise, noise_level, rands, perm)]
  /\ UNCHANGED <<args, ds, pc, ret, reads, out>>

CallNoiseInput ==
  /\ num.op = ""
  /\ \E n \in 0..MaxData, noise_level \in Levels, clip \in BOOLEAN, flat \in BOOLEAN :
       \E d \in [1..n -> DataVals],
          randn \in IF noise_level = 0 THEN {<<>>} ELSE [1..n -> RandnVals] :
         LET data == [shape |-> IF flat THEN <<n>> ELSE <<n, 1>>, d |-> d] IN
         num' = [op |-> "noise_input",
                 a |-> [data |-> data, noise_level |-> noise_level, clip |-> clip,
                        randn |-> randn],
                 r |-> noise_input(data, noise_level, clip, randn)]
  /\ UNCHANGED <<args, ds, pc, ret, reads, out>>

\* The caller takes the helper's result.
ResumeNum ==
  /\ num.op # ""
  /\ num' = NoNum
  /\ UNCHANGED <<args, ds, pc, ret, reads, out>>

InitNum ==
  /\ args = [image_paths |-> <<>>, mask_paths |-> None, mask_sizes |-> None,
             transform |-> FALSE, mask_transform |-> FALSE, in_memory |-> TRUE]
  /\ InitRest

NextNum == CallMaskPairToLabel \/ CallGetLabel \/ CallNoiseInput \/ ResumeNum

SpecNum == InitNum /\ [][NextNum]_vars

----------------------------------------------------------------------------
\* Properties of flower_dataset.

\* A dataset object exists.
Built == pc \in {"built", "returned"}

Positions == 1..Len(args.image_paths)

\* What the decoder returns for each kind of image file.
HasThreeAxes(kind) == kind \in {"rgb", "rgba"}
HasThreeChannels(kind) == kind = "rgb"

\* The positions of the images the eager loop keeps, in input order.
KeptPositions ==
  SelectSeq([i \in Positions |-> i], LAMBDA i : HasThreeAxes(args.image_paths[i]))

MaskUnreadableAt(i) == ~args.mask_paths.none /\ args.mask_paths.v[i] = "bad"
UnreadableAt(i) == args.image_paths[i] = "bad" \/ MaskUnreadableAt(i)
AllReadable == \A i \in Positions : ~UnreadableAt(i)

\* C1 as stated: the length of an eager dataset is the number of supplied
\* images with exactly 3 channels.
C1_LenCountsThreeChannelImages ==
  (Built /\ args.in_memory) =>
    len(ds) = Cardinality({i \in Positions : HasThreeChannels(args.image_paths[i])})

\* C1 amended: the length of an eager dataset is the number of supplied
\* images whose decoded array has exactly 3 axes (height, width, channels),
\* whatever the number of channels; only 2-D (grayscale) arrays are dropped.
C1_LenCountsThreeAxisImages ==
  (Built /\ args.in_memory) =>
    len(ds) = Cardinality({i \in Positions : HasThreeAxes(args.image_paths[i])})

\* An eager dataset built from a 4-channel image next to a grayscale one.
C1_Witness ==
  /\ pc = "built" /\ args.in_memory
  /\ \E i, j \in Positions : args.image_paths[i] = "rgba" /\ args.image_paths[j] = "gray"
  /\ len(ds) = Len(args.image_paths) - 1

\* C2 as stated: built from the same arguments, the eager and the lazy
\* dataset report the same length and return equal (image, mask-list)
\* pairs at every index below it.
C2_EagerAndLazyAgree ==
  LET other == init([args EXCEPT !.in_memory = ~@]) IN
  (Built /\ other.err = "") =>
    /\ len(other.self) = len(ds)
    /\ \A idx \in 0..(len(ds) - 1) :
         LET x == getitem(ds, idx)
             y == getitem(other.self, idx)
         IN x.ok = y.ok /\ x.image = y.image /\ x.masks = y.masks

\* C3 as stated: with readable paths, every index below the length can be
\* looked up, and an eager dataset stores exactly len images and len
\* mask-lists.
C3_LookupSucceedsBelowLen ==
  (Built /\ AllReadable) =>
    /\ \A idx \in 0..(len(ds) - 1) : getitem(ds, idx).ok
    /\ args.in_memory => Len(ds.image) = len(ds) /\ Len(ds.mask) = len(ds)

\* C3 amended: the same, for a lazy dataset only when mask_sizes is a list
\* (with the default mask_sizes=None every lazy lookup raises TypeError).
C3_LookupSucceedsBelowLenWithSizes ==
  (Built /\ AllReadable) =>
    /\ (args.in_memory \/ ~args.mask_sizes.none) =>
         \A idx \in 0..(len(ds) - 1) : getitem(ds, idx).ok
    /\ args.in_memory => Len(ds.image) = len(ds) /\ Len(ds.mask) = len(ds)

\* The last sample of an eager dataset that dropped an image has been
\* looked up.
C3_Witness ==
  /\ pc = "returned" /\ args.in_memory /\ AllReadable
  /\ len(ds) < Len(args.image_paths)
  /\ ret.idx = len(ds) - 1 /\ ret.ok

\* C5 as stated: one unreadable image or mask path fails eager
\* construction; lazy construction succeeds and reads nothing, and a lazy
\* lookup fails exactly at the indices whose image or mask path is
\* unreadable.
C5_UnreadablePathFails ==
  /\ (pc # "new" /\ args.in_memory /\ ~AllReadable) => pc = "failed"
  /\ (pc # "new" /\ ~args.in_memory) =>
       /\ pc # "failed"
       /\ pc = "built" => reads = {}
       /\ \A idx \in 0..(len(ds) - 1) : getitem(ds, idx).ok <=> ~UnreadableAt(idx + 1)

\* C5 amended: eager construction fails when an image path is unreadable or
\* the mask path of a kept image is; the mask path of a dropped image is
\* never read and cannot fail it.  Lazy construction succeeds and reads
\* nothing; a lazy lookup raises the read error exactly at the indices whose
\* image or mask path is unreadable, and succeeds at every other index when
\* mask_sizes is a list.
C5_UnreadablePathFailsWhereRead ==
  /\ (pc # "new" /\ args.in_memory) =>
       /\ (\E i \in Positions :
             \/ args.image_paths[i] = "bad"
             \/ HasThreeAxes(args.image_paths[i]) /\ MaskUnreadableAt(i)) => pc = "failed"
       /\ \A i \in Positions : ~HasThreeAxes(args.image_paths[i]) => (0 - i) \notin reads
       /\ ( /\ \A i \in Positions :
                 /\ args.image_paths[i] # "bad"
                 /\ HasThreeAxes(args.image_paths[i]) => ~MaskUnreadableAt(i)
            /\ ~args.mask_sizes.none ) => pc # "failed"
  /\ (pc # "new" /\ ~args.in_memory) =>
       /\ pc # "failed"
       /\ pc = "built" => reads = {}
       /\ \A idx \in 0..(len(ds) - 1) :
            /\ getitem(ds, idx).err = "IOError" <=> UnreadableAt(idx + 1)
            /\ ~args.mask_sizes.none => (getitem(ds, idx).ok <=> ~UnreadableAt(idx + 1))

\* An eager dataset was built although the mask path of a dropped image is
\* unreadable.
C5_Witness ==
  /\ pc = "built" /\ args.in_memory
  /\ \E i \in Positions : args.image_paths[i] = "gray" /\ MaskUnreadableAt(i)
  /\ \E i \in Positions : HasThreeAxes(args.image_paths[i])

\* C10: in an eager dataset with mask paths, sample j holds the j-th kept
\* image, in input order, with the masks decoded from the mask path at that
\* image's own position in the input.
C10_KeptImagesKeepTheirMasks ==
  (Built /\ args.in_memory /\ ~args.mask_paths.none) =>
    /\ Len(ds.image) = Len(KeptPositions)
    /\ Len(ds.mask) = Len(KeptPositions)
    /\ \A j \in 1..Len(KeptPositions) :
         /\ ds.image[j].file = KeptPositions[j]
         /\ Len(ds.mask[j]) = Len(args.mask_sizes.v)
         /\ \A k \in 1..Len(ds.mask[j]) : ds.mask[j][k].file = 0 - KeptPositions[j]

\* An eager dataset with masks whose first image was dropped and second kept.
C10_Witness ==
  /\ pc = "built" /\ args.in_memory /\ ~args.mask_paths.none
  /\ Len(args.image_paths) = 2
  /\ args.image_paths[1] = "gray" /\ args.image_paths[2] = "rgb"
  /\ Len(ds.mask) = 1 /\ Len(ds.mask[1]) = 2

\* C4: without mask paths, a returned sample has one mask per entry of
\* mask_sizes, the k-th of shape (1, mask_sizes[k], mask_sizes[k]) with
\* every value -1, in both modes; a dataset of RGB images only has one
\* sample per image.
C4_EmptyMasksPerSize ==
  (pc = "returned" /\ ret.ok /\ args.mask_paths.none) =>
    /\ (\A i \in Positions : args.image_paths[i] = "rgb") => len(ds) = Len(args.image_paths)
    /\ Len(ret.masks) = Len(args.mask_sizes.v)
    /\ \A k \in 1..Len(ret.masks) :
         LET size == args.mask_sizes.v[k] IN
         /\ ret.masks[k].dims = <<1, size, size>>
         /\ Len(Elements(ret.masks[k])) = size * size
         /\ \A p \in DOMAIN Elements(ret.masks[k]) : Elements(ret.masks[k])[p] = (0 - 1) * U8Max

\* A sample of a lazy dataset of two RGB images with two mask sizes.
C4_Witness ==
  /\ pc = "returned" /\ ret.ok /\ ~args.in_memory
  /\ args.image_paths = <<"rgb", "rgb">> /\ args.mask_sizes.v = <<1, 2>>
  /\ len(ds) = 2 /\ Len(ret.masks) = 2

----------------------------------------------------------------------------
\* Properties of sample_mask.

\* The dataset as construction left it.
Constructed == init(args).self

\* C9: a successful sample_mask returns one tensor per entry of sizes; batch
\* entry i of every resolution k is the noise plus mask k of the one example
\* drawn for i; the dataset handed in is left as construction built it.
C9_OneExamplePerEntryDatasetUntouched ==
  (pc = "returned" /\ out.called) =>
    /\ ds = Constructed
    /\ out.ok =>
         /\ Len(out.masks) = Len(out.sizes)
         /\ \A k \in 1..Len(out.sizes) :
              /\ Len(out.masks[k]) = out.batch_size
              /\ \A i \in 1..out.batch_size :
                   /\ Len(out.masks[k][i]) = out.sizes[k] * out.sizes[k]
                   /\ \A p \in 1..Len(out.masks[k][i]) :
                        out.masks[k][i][p] =
                          NoiseAt(out.seed, k, i, p)
                            + Elements(getitem(Constructed, out.draws[i]).masks[k])[1]

\* Two batch entries drew different examples of an eager dataset with real
\* masks at two resolutions.
C9_Witness ==
  /\ pc = "returned" /\ out.called /\ out.ok
  /\ args.in_memory /\ ~args.mask_paths.none
  /\ out.batch_size = 2 /\ Len(out.sizes) = 2
  /\ out.draws[1] # out.draws[2]

----------------------------------------------------------------------------
\* Properties of the numeric helpers.

Finest(list) == list[Len(list)]

RECURSIVE SumOfAbsDiff(_, _)
SumOfAbsDiff(x, y) ==
  IF x = <<>> THEN 0
  ELSE (IF Head(x) < Head(y) THEN Head(y) - Head(x) ELSE Head(x) - Head(y))
       + SumOfAbsDiff(Tail(x), Tail(y))

\* The label of row b is 1 - mean(|finest mask - finest real mask| / 2).
LabelIsOneMinusHalfMeanDiff ==
  /\ Len(num.r) = Len(Finest(num.a.mask))
  /\ \A b \in 1..Len(num.r) :
       /\ num.r[b].den = 2 * Len(Finest(num.a.mask)[b])
       /\ num.r[b].num = num.r[b].den
                          - SumOfAbsDiff(Finest(num.a.mask)[b], Finest(num.a.real_mask)[b])
       /\ Finest(num.a.mask)[b] = Finest(num.a.real_mask)[b] => num.r[b].num = num.r[b].den

InUnitRange(row) == \A p \in 1..Len(row) : 0 - 1 <= row[p] /\ row[p] <= 1

\* C6 as stated: the label is 1 minus the mean of |mask[-1] - real_mask[-1]| / 2
\* per row, lies in [0, 1], and is 1 for identical masks.
C6_LabelInUnitInterval ==
  num.op = "mask_pair_to_label" =>
    /\ LabelIsOneMinusHalfMeanDiff
    /\ \A b \in 1..Len(num.r) : 0 <= num.r[b].num /\ num.r[b].num <= num.r[b].den

\* C6 amended: the label is 1 minus the mean of |mask[-1] - real_mask[-1]| / 2
\* per row and is 1 for identical masks; it is at most 1, and at least 0
\* when every value of both finest masks lies in [-1, 1] (nothing clamps
\* it: masks further apart than 2 on average give a negative label).
C6_LabelAtMostOne ==
  num.op = "mask_pair_to_label" =>
    /\ LabelIsOneMinusHalfMeanDiff
    /\ \A b \in 1..Len(num.r) :
         /\ num.r[b].num <= num.r[b].den
         /\ (InUnitRange(Finest(num.a.mask)[b]) /\ InUnitRange(Finest(num.a.real_mask)[b]))
              => 0 <= num.r[b].num

\* Two resolutions were passed, one row is identical in the finest pair and
\* another row's label is negative.
C6_Witness ==
  /\ num.op = "mask_pair_to_label"
  /\ Len(num.a.mask) = 2 /\ Len(num.r) = 2
  /\ num.r[1].num = num.r[1].den
  /\ num.r[2].num < 0

\* C7: with soft = 0 and noise off, get_label returns size entries, each
\* equal to real (1 or 0).
C7_HardLabels ==
  (num.op = "get_label" /\ num.a.soft = 0 /\ ~num.a.noise) =>
    /\ Len(num.r) = num.a.size
    /\ \A i \in 1..Len(num.r) : num.r[i] = num.a.real * 100

\* Hard labels of two entries whose uniform draws were not zero.
C7_Witness ==
  /\ num.op = "get_label" /\ num.a.soft = 0 /\ ~num.a.noise
  /\ num.a.size = 2 /\ num.a.rands[1] > 0 /\ num.a.rands[2] > 0
  /\ num.r = <<0, 0>>

\* C8: with clip set and a nonzero noise level, noise_input returns a tensor
\* of the shape of data with every value in [-1, 1].
C8_ClippedToUnitRange ==
  (num.op = "noise_input" /\ num.a.clip /\ num.a.noise_level # 0) =>
    /\ num.r.shape = num.a.data.shape
    /\ Len(num.r.d) = Len(num.a.data.d)
    /\ \A i \in 1..Len(num.r.d) : 0 - 100 <= num.r.d[i] /\ num.r.d[i] <= 100

\* Data below -1 with negative noise and data above 1 were clipped.
C8_Witness ==
  /\ num.op = "noise_input" /\ num.a.clip /\ num.a.noise_level # 0
  /\ Len(num.a.data.d) = 2
  /\ num.a.data.d[1] < 0 - 100 /\ num.a.randn[1] < 0 /\ num.r.d[1] = 0 - 100
  /\ num.a.data.d[2] > 100 /\ num.r.d[2] = 100

====
